---- MODULE Spec2Model ----
(***************************************************************************)
(* Model of CliDiffClient (cli/src/hosts/CliDiffClient.ts): the in-memory  *)
(* table of open documents ("overlay store"), the operations that edit it  *)
(* and the filesystem they read and write.                                 *)
(*                                                                         *)
(* A text is a sequence of characters, a line is a text without NL, a path *)
(* is a sequence of segments.  String.split, Array.join, Array.slice,      *)
(* path.resolve and path.dirname are operators that compute what the       *)
(* library functions compute.                                              *)
(***************************************************************************)
EXTENDS Integers, Sequences, FiniteSets, TLC

VARIABLES
    cwd,            \* CliDiffClient.cwd: the root directory (absolute path)
    openDocuments,  \* CliDiffClient.openDocuments: Map<string, string>
    disk,           \* the files of the filesystem: real path -> optional text
    dirs,           \* the directories that exist (real paths)
    last,           \* the last request served and the response it got
    sinceSave,      \* history: per key, what was requested since its last successful save
    opened,         \* history: the opens made since the store was last empty, while nothing else changed it
    baseline,       \* history: per watched key, the original content read by the first openDiff of the entry now held
    nops,           \* number of requests served so far
    inflight,       \* per caller, the request it has in flight (suspended at an await) or the last one it got answered
    alone           \* history: the store, the filesystem and the requests of caller "p" had it run with no other caller

vars == <<cwd, openDocuments, disk, dirs, last, sinceSave, opened, baseline,
          nops, inflight, alone>>

\* what a request that is served without interleaving leaves alone
conc == <<inflight, alone>>

----------------------------------------------------------------------------
(* Values *)

NL == "\n"

\* An optional value: absent (undefined in a request, no file on the disk)
\* or present.
Absent == <<>>
Some(v) == <<v>>
IsSome(o) == o # <<>>
Val(o) == o[1]

Min(a, b) == IF a < b THEN a ELSE b
Max(a, b) == IF a > b THEN a ELSE b

----------------------------------------------------------------------------
(* Strings and arrays *)

\* String.prototype.split("\n"): the pieces between the separators, k+1
\* pieces for k separators; the empty string gives one empty piece.
RECURSIVE Split(_)
Split(s) ==
    IF \A i \in 1..Len(s) : s[i] # NL
    THEN <<s>>
    ELSE LET i == CHOOSE i \in 1..Len(s) :
                      s[i] = NL /\ \A j \in 1..(i - 1) : s[j] # NL
         IN  <<SubSeq(s, 1, i - 1)>> \o Split(SubSeq(s, i + 1, Len(s)))

\* Array.prototype.join("\n"): the empty array gives the empty string.
RECURSIVE Join(_)
Join(lines) ==
    IF lines = <<>> THEN <<>>
    ELSE IF Len(lines) = 1 THEN lines[1]
    ELSE lines[1] \o <<NL>> \o Join(Tail(lines))

\* The relative index of Array.prototype.slice: a negative index counts from
\* the end, and the result is clamped to [0, len].
RelIndex(i, len) == IF i < 0 THEN Max(len + i, 0) ELSE Min(i, len)

\* Array.prototype.slice(start, end), 0-based, end exclusive.
Slice(a, start, end) ==
    LET from == RelIndex(start, Len(a))
        to   == RelIndex(end, Len(a))
    IN  IF to <= from THEN <<>> ELSE SubSeq(a, from + 1, to)

\* Array.prototype.slice(start): to the end of the array.
SliceFrom(a, start) == Slice(a, start, Len(a))

\* JavaScript truthiness of an optional string / an optional number.
TruthyText(t) == IsSome(t) /\ Val(t) # <<>>
TruthyNum(n) == IsSome(n) /\ Val(n) # 0

----------------------------------------------------------------------------
(* Paths *)

\* A request path: absolute or relative, and its segments as written.
AbsPath(segs) == [abs |-> TRUE, segs |-> segs]
RelPath(segs) == [abs |-> FALSE, segs |-> segs]

\* path.normalize on the segments of an absolute path: "." is dropped and
\* ".." removes the segment before it (and is dropped at the root).
RECURSIVE NormalizeFrom(_, _)
NormalizeFrom(done, rest) ==
    IF rest = <<>> THEN done
    ELSE IF Head(rest) = "." THEN NormalizeFrom(done, Tail(rest))
    ELSE IF Head(rest) = ".."
         THEN NormalizeFrom(IF done = <<>> THEN done
                            ELSE SubSeq(done, 1, Len(done) - 1), Tail(rest))
    ELSE NormalizeFrom(Append(done, Head(rest)), Tail(rest))

Normalize(segs) == NormalizeFrom(<<>>, segs)

\* path.isAbsolute
isAbsolute(p) == p.abs

\* path.resolve(root, p) for an absolute root: the normalized absolute path.
PathResolve(root, p) ==
    IF isAbsolute(p) THEN Normalize(p.segs) ELSE Normalize(root \o p.segs)

\* path.dirname of an absolute path with at least one segment: the path
\* without its last segment, as written.
Dirname(key) == SubSeq(key, 1, Len(key) - 1)

----------------------------------------------------------------------------
(* Bounds and the inputs the requests are drawn from *)

MaxOps == 3        \* requests served in one run

Root == <<"r">>

\* "./a" and "/r/a" name one file in two ways, "/r/./a" is an absolute path
\* that is not in normal form, "d/b" lies in a directory that may not exist.
RequestPaths ==
    { RelPath(<<".", "a">>), AbsPath(<<"r", "a">>),
      AbsPath(<<"r", ".", "a">>), RelPath(<<"d", "b">>) }

OpenTexts == { Absent, Some(<<>>), Some(<<"a", NL, "b">>) }
NewTexts == { Absent, Some(<<"b">>) }
LineArgs == { Absent, Some(1) }
\* startLine and endLine of a replace: none or both
LineRanges == { <<Absent, Absent>>, <<Some(1), Some(1)>> }
MaxLinesArgs == { Absent, Some(1) }
DiskTexts == { <<"a", NL, "b">> }
ReadOutcomes == { "ok", "error" }
SaveOutcomes == { "ok", "mkdirError", "writeError", "writeErrorTruncated" }

----------------------------------------------------------------------------
(* The open-documents map *)

EmptyMap == [k \in {} |-> <<>>]
MapHas(m, k) == k \in DOMAIN m
MapGet(m, k) == m[k]
MapSet(m, k, v) == [x \in (DOMAIN m) \cup {k} |-> IF x = k THEN v ELSE m[x]]
MapDelete(m, k) == [x \in (DOMAIN m) \ {k} |-> m[x]]
MapSize(m) == Cardinality(DOMAIN m)

----------------------------------------------------------------------------
(* The filesystem *)

\* The file a key names: the operating system resolves "." and "..".
RealFile(key) == Normalize(key)

\* The directory and every ancestor of it, the root excluded.
AncestorsOrSelf(dir) == { SubSeq(dir, 1, n) : n \in 1..Len(dir) }

\* CliDiffClient.resolveFilePath: an absolute path is the key as written, a
\* relative one is resolved against the root directory.
resolveFilePathMutantRaw(p) == IF isAbsolute(p) THEN p.segs ELSE cwd \o p.segs
resolveFilePathMutantInitial(p) ==
    IF isAbsolute(p) THEN p.segs ELSE PathResolve(<<"r">>, p)
resolveFilePath(p) == IF isAbsolute(p) THEN p.segs ELSE PathResolve(cwd, p)

AllKeys == { IF isAbsolute(p) THEN p.segs ELSE PathResolve(Root, p) : p \in RequestPaths }
Files == { RealFile(k) : k \in AllKeys }
AllDirs == UNION { AncestorsOrSelf(Dirname(f)) : f \in Files }

\* fs.readFile(key, "utf-8"): the text, or an error when there is no file or
\* the read fails.
ReadFile(key, outcome) ==
    IF ~IsSome(disk[RealFile(key)]) \/ outcome = "error"
    THEN [ok |-> FALSE, value |-> <<>>]
    ELSE [ok |-> TRUE, value |-> Val(disk[RealFile(key)])]

\* A handler that finds no entry for the key reads the file; whether the read
\* can fail for another reason than a missing file is a choice only then.
ReadPerformed(key) ==
    ~MapHas(openDocuments, key) /\ IsSome(disk[RealFile(key)])

\* fs.mkdir(dir, {recursive: true})
MkdirRecursive(ds, dir) == ds \cup AncestorsOrSelf(Normalize(dir))

----------------------------------------------------------------------------
(* The fs calls of the handlers and the try blocks around them *)

\* The fs call that fails in a handler: the read of a file that is missing
\* or unreadable (openDiff reads always, the other handlers when the store
\* has no entry), the mkdir or the writeFile of a save that found an entry.
OpenFailure(key, rd) == IF ReadFile(key, rd).ok THEN "none" ELSE "readFile"
ReadFailure(docs, key, rd) ==
    IF ~MapHas(docs, key) /\ ~ReadFile(key, rd).ok THEN "readFile" ELSE "none"
SaveFailure(docs, key, io) ==
    IF ~MapHas(docs, key) \/ io = "ok" THEN "none"
    ELSE IF io = "mkdirError" THEN "mkdir" ELSE "writeFile"

\* The fs calls that stand inside a try block of their handler: openDiff
\* lines 91-98, getDocumentText 129-142, replaceText 157-162,
\* truncateDocument 218-241, saveDocument 250-276.
TrySites ==
    { <<"openDiff", "readFile">>, <<"getDocumentText", "readFile">>,
      <<"replaceText", "readFile">>, <<"truncateDocument", "readFile">>,
      <<"saveDocument", "mkdir">>, <<"saveDocument", "writeFile">> }

\* The rejection of a failed fs call leaves the handler unless a try block
\* catches it.
ThrowsMutantMkdir(op, failure) == failure = "mkdir"
Throws(op, failure) == failure # "none" /\ <<op, failure>> \notin TrySites

----------------------------------------------------------------------------
(* The record of the last request *)

\* opened: the number n of openDiff calls (openMultiFileDiff makes one per
\* file) since the store was last empty, and the set of their keys; unknown
\* once a replace, truncate or save was requested.
NoneOpened == [known |-> TRUE, n |-> 0, keys |-> {}]
Unknown == [known |-> FALSE, n |-> 0, keys |-> {}]
AlsoOpened(o, keys) ==
    IF o.known
    THEN [o EXCEPT !.n = @ + Len(keys),
                   !.keys = @ \cup { keys[i] : i \in 1..Len(keys) }]
    ELSE o

NoBefore ==
    [ op |-> "init", path |-> RelPath(<<>>), key |-> <<>>, content |-> Absent,
      files |-> <<>> ]

NoRequest ==
    [ op |-> "init", path |-> RelPath(<<>>), key |-> <<>>,
      content |-> Absent, startLine |-> Absent, endLine |-> Absent,
      maxLines |-> Absent, files |-> <<>>,
      success |-> FALSE, id |-> Absent, text |-> <<>>, count |-> 0,
      original |-> <<>>, was |-> Absent, after |-> NoBefore,
      opened |-> Unknown, failed |-> 0,
      failure |-> "none", threw |-> FALSE,
      hunks |-> <<>>, rows |-> <<>>, lineNumber |-> 1 ]

\* History kept in `last`: `was` is the entry the store held for the key
\* when a replaceText, truncateDocument or saveDocument arrived (absent when
\* it held none); `after` is the request served just before, kept by
\* getDocumentText when that was an openDiff and by closeAllDiffs when that
\* was an openMultiFileDiff.
Before(l, op) ==
    IF l.op = op
    THEN [ op |-> l.op, path |-> l.path, key |-> l.key,
           content |-> l.content, files |-> l.files ]
    ELSE NoBefore
Was(docs, key) == IF MapHas(docs, key) THEN Some(MapGet(docs, key)) ELSE Absent

\* sinceSave[k]: "clean" after a successful save of k, "edited" once a
\* replace or truncate of k was requested after it, "none" before any save
\* and after an open of k.
Edited(h, k) == IF h[k] = "none" THEN h ELSE [h EXCEPT ![k] = "edited"]

\* baseline[k], kept for the keys a specification watches: the original
\* content that the first openDiff of k read since k last had no entry;
\* absent while no openDiff of k was served since.
NoBaseline(keys) == [k \in keys |-> Absent]
FirstBaseline(b, docs, key, original) ==
    IF key \notin DOMAIN b \/ (MapHas(docs, key) /\ IsSome(b[key])) THEN b
    ELSE [b EXCEPT ![key] = Some(original)]
DropBaseline(b, key) ==
    IF key \in DOMAIN b THEN [b EXCEPT ![key] = Absent] ELSE b

----------------------------------------------------------------------------
(* setCurrentWorkingDirectory, lines 30-32 *)

SetCurrentWorkingDirectory(dir) ==
    /\ nops < MaxOps
    /\ cwd' = dir
    /\ last' = [NoRequest EXCEPT !.op = "setCurrentWorkingDirectory",
                                 !.key = dir]
    /\ nops' = nops + 1
    /\ UNCHANGED conc
    /\ UNCHANGED <<openDocuments, disk, dirs, sinceSave, opened, baseline>>

----------------------------------------------------------------------------
(* displayDiff, lines 49-81 *)

MaxParts == 3

\* A part of the diff: its kind ("added", "removed", "unchanged") and its
\* value, the text of its lines.  A row of the display: the mark of its
\* kind, the number shown and the line.
Part(kind, value) == [kind |-> kind, value |-> value]
Row(mark, number, line) == [mark |-> mark, number |-> number, line |-> line]

\* part.value.split("\n").filter((line) => line !== ""), lines 58 and 64
NonEmptyLines(value) == SelectSeq(Split(value), LAMBDA line : line # <<>>)

\* part.value.split("\n").filter((line, index, arr) =>
\*     line !== "" || index !== arr.length - 1), lines 69-72
AllButLastEmpty(value) ==
    LET arr == Split(value)
    IN  IF arr[Len(arr)] = <<>> THEN SubSeq(arr, 1, Len(arr) - 1) ELSE arr

\* The rows of one part shown from the counter lineNumber on, and the
\* counter after it (lines 57-77).
PartRows(part, lineNumber) ==
    IF part.kind = "added"
    THEN LET lines == NonEmptyLines(part.value)
         IN  [i \in 1..Len(lines) |-> Row("+", lineNumber + i - 1, lines[i])]
    ELSE IF part.kind = "removed"
    THEN LET lines == NonEmptyLines(part.value)
         IN  [i \in 1..Len(lines) |-> Row("-", lineNumber, lines[i])]
    ELSE LET lines == AllButLastEmpty(part.value)
         IN  [i \in 1..Len(lines) |-> Row(" ", lineNumber + i - 1, lines[i])]
CounterAfter(part, lineNumber) ==
    IF part.kind = "removed" THEN lineNumber
    ELSE lineNumber + Len(PartRows(part, lineNumber))

\* for (const part of diff), with let lineNumber = 1 (lines 54-78)
RECURSIVE RowsFrom(_, _)
RowsFrom(diff, lineNumber) ==
    IF diff = <<>> THEN <<>>
    ELSE PartRows(Head(diff), lineNumber)
            \o RowsFrom(Tail(diff), CounterAfter(Head(diff), lineNumber))
DisplayRows(diff) == RowsFrom(diff, 1)

\* One turn of the loop of displayDiff, for the next part of the diff:
\* `last` holds the parts shown so far, their rows and the counter.
DisplayPart(part) ==
    /\ last.op \in { "init", "displayDiff" }
    /\ Len(last.hunks) < MaxParts
    /\ last' = [last EXCEPT !.op = "displayDiff",
                            !.hunks = Append(@, part),
                            !.rows = @ \o PartRows(part, last.lineNumber),
                            !.lineNumber = CounterAfter(part, @)]
    /\ UNCHANGED conc
    /\ UNCHANGED <<cwd, openDocuments, disk, dirs, sinceSave, opened, baseline,
                   nops>>

----------------------------------------------------------------------------
(* diffLines: the line differ that displayDiff calls at line 53 *)

\* The lines of a text, each with its terminator; the last line has none
\* when the text does not end at a line boundary.
RECURSIVE Tokenize(_)
Tokenize(s) ==
    IF s = <<>> THEN <<>>
    ELSE IF \A i \in 1..Len(s) : s[i] # NL THEN <<s>>
    ELSE LET i == CHOOSE i \in 1..Len(s) :
                      s[i] = NL /\ \A j \in 1..(i - 1) : s[j] # NL
         IN  <<SubSeq(s, 1, i)>> \o Tokenize(SubSeq(s, i + 1, Len(s)))

\* A line without its terminator.
LineOf(token) ==
    IF token # <<>> /\ token[Len(token)] = NL
    THEN SubSeq(token, 1, Len(token) - 1) ELSE token

\* The length of a longest common subsequence of two lists of lines.
RECURSIVE LcsLen(_, _)
LcsLen(a, b) ==
    IF a = <<>> \/ b = <<>> THEN 0
    ELSE IF LineOf(Head(a)) = LineOf(Head(b))
         THEN 1 + LcsLen(Tail(a), Tail(b))
    ELSE Max(LcsLen(Tail(a), b), LcsLen(a, Tail(b)))

\* The classified lines: a line common to both is unchanged; where the
\* texts diverge the lines of the old text are removed before the lines of
\* the new text are added.
RECURSIVE EditScriptMutantAddFirst(_, _)
EditScriptMutantAddFirst(a, b) ==
    IF a = <<>> THEN [i \in 1..Len(b) |-> Part("added", b[i])]
    ELSE IF b = <<>> THEN [i \in 1..Len(a) |-> Part("removed", a[i])]
    ELSE IF LineOf(Head(a)) = LineOf(Head(b))
         THEN <<Part("unchanged", Head(b))>>
                 \o EditScriptMutantAddFirst(Tail(a), Tail(b))
    ELSE IF LcsLen(a, Tail(b)) >= LcsLen(Tail(a), b)
         THEN <<Part("added", Head(b))>> \o EditScriptMutantAddFirst(a, Tail(b))
    ELSE <<Part("removed", Head(a))>> \o EditScriptMutantAddFirst(Tail(a), b)
RECURSIVE EditScript(_, _)
EditScript(a, b) ==
    IF a = <<>> THEN [i \in 1..Len(b) |-> Part("added", b[i])]
    ELSE IF b = <<>> THEN [i \in 1..Len(a) |-> Part("removed", a[i])]
    ELSE IF LineOf(Head(a)) = LineOf(Head(b))
         THEN <<Part("unchanged", Head(b))>> \o EditScript(Tail(a), Tail(b))
    ELSE IF LcsLen(Tail(a), b) >= LcsLen(a, Tail(b))
         THEN <<Part("removed", Head(a))>> \o EditScript(Tail(a), b)
    ELSE <<Part("added", Head(b))>> \o EditScript(a, Tail(b))

\* Runs of lines of one kind make one part.
RECURSIVE MergeRuns(_)
MergeRuns(ps) ==
    IF Len(ps) <= 1 THEN ps
    ELSE LET rest == MergeRuns(Tail(ps))
         IN  IF Head(ps).kind = Head(rest).kind
             THEN <<Part(Head(ps).kind, Head(ps).value \o Head(rest).value)>>
                     \o Tail(rest)
             ELSE <<Head(ps)>> \o rest

DiffLines(oldContent, newContent) ==
    MergeRuns(EditScript(Tokenize(oldContent), Tokenize(newContent)))

----------------------------------------------------------------------------
(* openDiff, lines 86-121 *)

\* const newContent = request.content || ""
OpenContent(c) == IF TruthyText(c) THEN Val(c) ELSE <<>>

\* The baseline shown as the "before" side: the file's text, "" when the
\* read fails.
OriginalContentMutantOverlay(key, rd) ==
    LET r == ReadFile(key, rd)
    IN  IF r.ok THEN r.value
        ELSE IF MapHas(openDocuments, key) THEN MapGet(openDocuments, key)
        ELSE <<>>
OriginalContent(key, rd) ==
    LET r == ReadFile(key, rd) IN IF r.ok THEN r.value ELSE <<>>

\* The constants of a handler (filePath, originalContent, ...) are bound
\* once, as the code computes them once.
OpenDiff(p, c, rd) ==
    /\ nops < MaxOps
    /\ rd = "ok" \/ IsSome(disk[RealFile(resolveFilePath(p))])
    /\ \E filePath \in {resolveFilePath(p)} :
       \E originalContent \in {OriginalContent(filePath, rd)} :
       \E newContent \in {OpenContent(c)} :
       \E diff \in {DiffLines(originalContent, newContent)} :
           /\ openDocuments' = MapSet(openDocuments, filePath, newContent)
           /\ last' = [NoRequest EXCEPT !.op = "openDiff", !.path = p,
                          !.key = filePath, !.content = c,
                          !.original = originalContent,
                          !.hunks = diff, !.rows = DisplayRows(diff),
                          !.failure = OpenFailure(filePath, rd),
                          !.threw = Throws("openDiff",
                                           OpenFailure(filePath, rd)),
                          !.id = Some(filePath), !.success = TRUE]
           /\ sinceSave' = [sinceSave EXCEPT ![filePath] = "none"]
           /\ baseline' = FirstBaseline(baseline, openDocuments, filePath,
                                        originalContent)
    /\ opened' = AlsoOpened(opened, <<resolveFilePath(p)>>)
    /\ nops' = nops + 1
    /\ UNCHANGED conc
    /\ UNCHANGED <<cwd, disk, dirs>>

----------------------------------------------------------------------------
(* getDocumentText, lines 126-143 *)

GetTextMutantTruthy(docs, key, rd) ==
    IF MapHas(docs, key) /\ MapGet(docs, key) # <<>> THEN MapGet(docs, key)
    ELSE LET r == ReadFile(key, rd) IN IF r.ok THEN r.value ELSE <<>>
GetText(docs, key, rd) ==
    IF MapHas(docs, key) THEN MapGet(docs, key)
    ELSE LET r == ReadFile(key, rd) IN IF r.ok THEN r.value ELSE <<>>

\* The store after getDocumentText: the handler calls has and get only.
GetTextDocsMutantCache(docs, key, rd) ==
    IF MapHas(docs, key) \/ ~ReadFile(key, rd).ok THEN docs
    ELSE MapSet(docs, key, ReadFile(key, rd).value)
GetTextDocs(docs, key, rd) == docs

GetDocumentText(p, rd) ==
    /\ nops < MaxOps
    /\ rd = "ok" \/ ReadPerformed(resolveFilePath(p))
    /\ \E filePath \in {resolveFilePath(p)} :
           last' = [NoRequest EXCEPT !.op = "getDocumentText", !.path = p,
                       !.key = filePath,
                       !.after = Before(last, "openDiff"),
                       !.failure = ReadFailure(openDocuments, filePath, rd),
                       !.threw = Throws("getDocumentText",
                                    ReadFailure(openDocuments, filePath, rd)),
                       !.text = GetText(openDocuments, filePath, rd)]
    /\ openDocuments' = GetTextDocs(openDocuments, resolveFilePath(p), rd)
    /\ nops' = nops + 1
    /\ UNCHANGED conc
    /\ UNCHANGED <<cwd, disk, dirs, sinceSave, opened, baseline>>

----------------------------------------------------------------------------
(* replaceText, lines 148-198 *)

\* The content the replacement starts from, lines 153-163.
CurrentOrDiskMutantEmpty(docs, key, rd) ==
    IF MapHas(docs, key) THEN MapGet(docs, key) ELSE <<>>
CurrentOrDisk(docs, key, rd) ==
    IF MapHas(docs, key) THEN MapGet(docs, key)
    ELSE LET r == ReadFile(key, rd) IN IF r.ok THEN r.value ELSE <<>>

\* The replacement, lines 166-181.
ReplaceContentMutantExclusive(currentContent, s, e, t) ==
    IF IsSome(s) /\ IsSome(e)
    THEN LET lines       == Split(currentContent)
             startLine   == Max(0, Val(s) - 1)
             endLine     == Min(Len(lines), Val(e) - 1)
             beforeLines == Slice(lines, 0, startLine)
             afterLines  == SliceFrom(lines, endLine)
             newLines    == IF TruthyText(t) THEN Split(Val(t)) ELSE <<>>
         IN  Join(beforeLines \o newLines \o afterLines)
    ELSE IF TruthyText(t) THEN Val(t) ELSE <<>>
ReplaceContentMutantOneBound(currentContent, s, e, t) ==
    IF IsSome(s) \/ IsSome(e)
    THEN LET lines       == Split(currentContent)
             startLine   == IF IsSome(s) THEN Max(0, Val(s) - 1) ELSE 0
             endLine     == IF IsSome(e) THEN Min(Len(lines), Val(e))
                            ELSE Len(lines)
             beforeLines == Slice(lines, 0, startLine)
             afterLines  == SliceFrom(lines, endLine)
             newLines    == IF TruthyText(t) THEN Split(Val(t)) ELSE <<>>
         IN  Join(beforeLines \o newLines \o afterLines)
    ELSE IF TruthyText(t) THEN Val(t) ELSE <<>>
ReplaceContentMutantKeep(currentContent, s, e, t) ==
    IF IsSome(s) /\ IsSome(e)
    THEN LET lines       == Split(currentContent)
             startLine   == Max(0, Val(s) - 1)
             endLine     == Min(Len(lines), Val(e))
             beforeLines == Slice(lines, 0, startLine)
             afterLines  == SliceFrom(lines, endLine)
             newLines    == IF TruthyText(t) THEN Split(Val(t)) ELSE <<>>
         IN  Join(beforeLines \o newLines \o afterLines)
    ELSE IF TruthyText(t) THEN Val(t) ELSE currentContent
ReplaceContent(currentContent, s, e, t) ==
    IF IsSome(s) /\ IsSome(e)
    THEN LET lines       == Split(currentContent)
             startLine   == Max(0, Val(s) - 1)
             endLine     == Min(Len(lines), Val(e))
             beforeLines == Slice(lines, 0, startLine)
             afterLines  == SliceFrom(lines, endLine)
             newLines    == IF TruthyText(t) THEN Split(Val(t)) ELSE <<>>
         IN  Join(beforeLines \o newLines \o afterLines)
    ELSE IF TruthyText(t) THEN Val(t) ELSE <<>>

\* this.openDocuments.set(filePath, newContent), line 184
ReplaceDocsMutantOnly(docs, key, newContent) ==
    MapSet(EmptyMap, key, newContent)
ReplaceDocs(docs, key, newContent) == MapSet(docs, key, newContent)

ReplaceText(p, s, e, t, rd) ==
    /\ nops < MaxOps
    /\ rd = "ok" \/ ReadPerformed(resolveFilePath(p))
    /\ \E filePath \in {resolveFilePath(p)} :
       \E currentContent \in {CurrentOrDisk(openDocuments, filePath, rd)} :
       \E newContent \in {ReplaceContent(currentContent, s, e, t)} :
           /\ openDocuments' = ReplaceDocs(openDocuments, filePath, newContent)
           /\ last' = [NoRequest EXCEPT !.op = "replaceText", !.path = p,
                          !.key = filePath, !.startLine = s, !.endLine = e,
                          !.content = t, !.success = TRUE,
                          !.failure = ReadFailure(openDocuments, filePath, rd),
                          !.threw = Throws("replaceText",
                                      ReadFailure(openDocuments, filePath, rd)),
                          !.was = Was(openDocuments, filePath)]
           /\ sinceSave' = Edited(sinceSave, filePath)
    /\ opened' = Unknown
    /\ nops' = nops + 1
    /\ UNCHANGED conc
    /\ UNCHANGED <<cwd, disk, dirs, baseline>>

----------------------------------------------------------------------------
(* scrollDiff, lines 203-210 *)

ScrollDiff(diffId, lineNumber) ==
    /\ nops < MaxOps
    /\ last' = [NoRequest EXCEPT !.op = "scrollDiff", !.key = diffId,
                   !.startLine = lineNumber, !.success = TRUE]
    /\ nops' = nops + 1
    /\ UNCHANGED conc
    /\ UNCHANGED <<cwd, openDocuments, disk, dirs, sinceSave, opened, baseline>>

----------------------------------------------------------------------------
(* truncateDocument, lines 215-242 *)

\* lines.slice(0, request.maxLines || lines.length).join("\n"), lines 228-230
TruncateContent(currentContent, m) ==
    LET lines == Split(currentContent)
        truncatedLines ==
            Slice(lines, 0, IF TruthyNum(m) THEN Val(m) ELSE Len(lines))
    IN  Join(truncatedLines)

\* The content the truncation starts from, lines 220-225: the entry, or
\* the file's text; a failed read ends the request in the catch block.
TruncateSourceMutantEmpty(docs, key, rd) ==
    IF MapHas(docs, key) THEN [ok |-> TRUE, value |-> MapGet(docs, key)]
    ELSE [ok |-> TRUE, value |-> ReadFile(key, rd).value]
TruncateSource(docs, key, rd) ==
    IF MapHas(docs, key) THEN [ok |-> TRUE, value |-> MapGet(docs, key)]
    ELSE ReadFile(key, rd)

TruncateDocument(p, m, rd) ==
    /\ nops < MaxOps
    /\ rd = "ok" \/ ReadPerformed(resolveFilePath(p))
    /\ \E filePath \in {resolveFilePath(p)} :
       \E src \in {TruncateSource(openDocuments, filePath, rd)} :
           /\ openDocuments' =
                 IF src.ok
                 THEN MapSet(openDocuments, filePath,
                             TruncateContent(src.value, m))
                 ELSE openDocuments
           /\ last' = [NoRequest EXCEPT !.op = "truncateDocument", !.path = p,
                          !.key = filePath, !.maxLines = m,
                          !.was = Was(openDocuments, filePath),
                          !.failure = ReadFailure(openDocuments, filePath, rd),
                          !.threw = Throws("truncateDocument",
                                      ReadFailure(openDocuments, filePath, rd)),
                          !.success = src.ok]
           /\ sinceSave' = Edited(sinceSave, filePath)
    /\ opened' = Unknown
    /\ nops' = nops + 1
    /\ UNCHANGED conc
    /\ UNCHANGED <<cwd, disk, dirs, baseline>>

----------------------------------------------------------------------------------------------------------------------------------------------
(* saveDocument, lines 247-277 *)

\* A save that finds no entry returns at line 257.  One that finds an entry
\* makes the directory (line 262), writes the file (line 265) and deletes
\* the entry (line 268); an error at mkdir or at writeFile ends it in the
\* catch block.  A failed mkdir changes nothing; a failed write leaves the
\* file as it was or, when the file was opened for writing before the
\* failure, empty.
SaveDirsMutantEarly(docs, key, io) ==
    IF io = "mkdirError" THEN dirs ELSE MkdirRecursive(dirs, Dirname(key))
SaveDirs(docs, key, io) ==
    IF ~MapHas(docs, key) \/ io = "mkdirError" THEN dirs
    ELSE MkdirRecursive(dirs, Dirname(key))

SaveDiskMutantAppend(docs, key, io) ==
    IF ~MapHas(docs, key) THEN disk
    ELSE IF io = "ok"
         THEN [disk EXCEPT ![RealFile(key)] =
                  Some((IF IsSome(@) THEN Val(@) ELSE <<>>) \o MapGet(docs, key))]
    ELSE IF io = "writeErrorTruncated"
         THEN [disk EXCEPT ![RealFile(key)] = Some(<<>>)]
    ELSE disk
SaveDisk(docs, key, io) ==
    IF ~MapHas(docs, key) THEN disk
    ELSE IF io = "ok" THEN [disk EXCEPT ![RealFile(key)] = Some(MapGet(docs, key))]
    ELSE IF io = "writeErrorTruncated"
         THEN [disk EXCEPT ![RealFile(key)] = Some(<<>>)]
    ELSE disk

SaveDocsMutantKeep(docs, key, io) == docs
SaveDocsMutantAlways(docs, key, io) ==
    IF MapHas(docs, key) THEN MapDelete(docs, key) ELSE docs
SaveDocsMutantClear(docs, key, io) ==
    IF MapHas(docs, key) /\ io = "ok" THEN EmptyMap ELSE docs
SaveDocs(docs, key, io) ==
    IF MapHas(docs, key) /\ io = "ok" THEN MapDelete(docs, key) ELSE docs

SaveSuccess(docs, key, io) == MapHas(docs, key) /\ io = "ok"

SaveDocument(p, io) ==
    /\ nops < MaxOps
    /\ io = "ok" \/ MapHas(openDocuments, resolveFilePath(p))
    /\ \E filePath \in {resolveFilePath(p)} :
       \E success \in {SaveSuccess(openDocuments, filePath, io)} :
           /\ dirs' = SaveDirs(openDocuments, filePath, io)
           /\ disk' = SaveDisk(openDocuments, filePath, io)
           /\ openDocuments' = SaveDocs(openDocuments, filePath, io)
           /\ sinceSave' = IF success
                           THEN [sinceSave EXCEPT ![filePath] = "clean"]
                           ELSE sinceSave
           /\ last' = [NoRequest EXCEPT !.op = "saveDocument", !.path = p,
                          !.key = filePath,
                          !.was = Was(openDocuments, filePath),
                          !.failure = SaveFailure(openDocuments, filePath, io),
                          !.threw = Throws("saveDocument",
                                      SaveFailure(openDocuments, filePath, io)),
                          !.success = success]
           /\ baseline' = IF success
                          THEN DropBaseline(baseline, filePath)
                          ELSE baseline
    /\ opened' = Unknown
    /\ nops' = nops + 1
    /\ UNCHANGED conc
    /\ UNCHANGED cwd

----------
(* closeAllDiffs, lines 282-289 *)

\* this.openDocuments.clear()
ClearMutantOne(docs) ==
    IF docs = EmptyMap THEN docs
    ELSE MapDelete(docs, CHOOSE k \in DOMAIN docs : TRUE)
Clear(docs) == EmptyMap

\* const openCount = this.openDocuments.size: the count the message reports
OpenCountMutantAfterClear(docs) == MapSize(Clear(docs))
OpenCount(docs) == MapSize(docs)

CloseAllDiffs ==
    /\ nops < MaxOps
    /\ openDocuments' = Clear(openDocuments)
    /\ last' = [NoRequest EXCEPT !.op = "closeAllDiffs",
                   !.count = OpenCount(openDocuments), !.success = TRUE,
                   !.after = Before(last, "openMultiFileDiff"),
                   !.opened = opened]
    /\ opened' = NoneOpened
    /\ baseline' = NoBaseline(DOMAIN baseline)
    /\ nops' = nops + 1
    /\ UNCHANGED conc
    /\ UNCHANGED <<cwd, disk, dirs, sinceSave>>

----------------------------------------------------------------------------
(* openMultiFileDiff, lines 294-310 *)

\* The store after openDiff of each file in order, lines 302-307.
RECURSIVE BaselineEach(_, _, _)
BaselineEach(b, docs, files) ==
    IF files = <<>> THEN b
    ELSE LET key == resolveFilePath(Head(files).path)
         IN  BaselineEach(FirstBaseline(b, docs, key,
                                        OriginalContent(key, "ok")),
                          MapSet(docs, key, OpenContent(Head(files).content)),
                          Tail(files))

RECURSIVE OpenEach(_, _)
OpenEach(docs, files) ==
    IF files = <<>> THEN docs
    ELSE OpenEach(MapSet(docs, resolveFilePath(Head(files).path),
                         OpenContent(Head(files).content)),
                  Tail(files))

FileKeys(files) == { resolveFilePath(files[i].path) : i \in 1..Len(files) }

\* The responses of the openDiff calls of the loop.  An openDiff whose
\* display of the diff raises (the output handler is the caller's function)
\* has stored its entry (line 103) and answers success:false from its catch
\* block (lines 114-120).
OpenResults(files) == [i \in 1..Len(files) |-> files[i].shown = "ok"]
FailedOpens(files) ==
    Cardinality({ i \in 1..Len(files) : ~OpenResults(files)[i] })

\* The response of openMultiFileDiff: success:false for no files (lines
\* 295-298), success:true after the loop whatever the openDiff calls
\* answered (line 309).
BatchSuccessMutantAll(files) ==
    files # <<>> /\ \A i \in 1..Len(files) : OpenResults(files)[i]
BatchSuccess(files) == files # <<>>

OpenMultiFileDiff(files) ==
    /\ nops < MaxOps
    /\ IF files = <<>>
       THEN /\ last' = [NoRequest EXCEPT !.op = "openMultiFileDiff",
                           !.success = BatchSuccess(files)]
            /\ UNCHANGED <<openDocuments, sinceSave, baseline>>
       ELSE /\ openDocuments' = OpenEach(openDocuments, files)
            /\ baseline' = BaselineEach(baseline, openDocuments, files)
            /\ last' = [NoRequest EXCEPT !.op = "openMultiFileDiff",
                           !.files = [i \in 1..Len(files) |-> files[i].path],
                           !.failed = FailedOpens(files),
                           !.success = BatchSuccess(files)]
            /\ sinceSave' = [k \in DOMAIN sinceSave |->
                               IF k \in FileKeys(files) THEN "none"
                               ELSE sinceSave[k]]
    /\ opened' = AlsoOpened(opened,
                            [i \in 1..Len(files) |-> resolveFilePath(files[i].path)])
    /\ nops' = nops + 1
    /\ UNCHANGED conc
    /\ UNCHANGED <<cwd, disk, dirs>>

BatchEntries ==
    { [path |-> p, content |-> Some(<<"a">>), shown |-> "ok"] :
         p \in RequestPaths }
\* No file, one file, or "./a" followed by a file: the same path twice,
\* two paths of one file, and two files.
Batches ==
    {<<>>} \cup { <<f>> : f \in BatchEntries }
           \cup { <<f, g>> : f \in { e \in BatchEntries :
                                       e.path = RelPath(<<".", "a">>) },
                             g \in BatchEntries }

----------------------------------------------------------------------------
(* The handlers step by step.  A handler runs without interruption from   *)
(* its call to its first await of a filesystem call, and from the         *)
(* completion of an awaited call to the next await or to its return; the  *)
(* steps of other requests can take place in between.  The completion of  *)
(* a filesystem call and the continuation that follows it are one step.   *)

\* The store and the filesystem a step works on.
WorldOf(docs, dk, ds) == [docs |-> docs, disk |-> dk, dirs |-> ds]

\* A caller with nothing in flight and no answer yet.
IdleCaller ==
    [ pc |-> "idle", op |-> "none", key |-> <<>>, content |-> Absent,
      startLine |-> Absent, endLine |-> Absent, maxLines |-> Absent,
      local |-> <<>>, success |-> FALSE, text |-> <<>>, id |-> Absent,
      calls |-> 0 ]
Request(op, p, c, s, e, m) ==
    [ op |-> op, path |-> p, content |-> c, startLine |-> s, endLine |-> e,
      maxLines |-> m ]

\* A filesystem path names a file, a directory, or nothing.
FsIsFile(w, f) == f \in DOMAIN w.disk /\ IsSome(w.disk[f])

\* fs.readFile(key, "utf-8")
FsRead(w, key, outcome) ==
    IF ~FsIsFile(w, RealFile(key)) \/ outcome # "ok"
    THEN [ok |-> FALSE, value |-> <<>>]
    ELSE [ok |-> TRUE, value |-> Val(w.disk[RealFile(key)])]

\* fs.mkdir(dir, {recursive: true}) fails when a file stands where a
\* directory is to be.
FsMkdir(w, dir, outcome) ==
    IF outcome # "ok" \/ \E x \in AncestorsOrSelf(Normalize(dir)) : FsIsFile(w, x)
    THEN [ok |-> FALSE, dirs |-> w.dirs]
    ELSE [ok |-> TRUE, dirs |-> MkdirRecursive(w.dirs, dir)]

\* fs.writeFile(key, content, "utf-8") fails when the path is a directory
\* or its directory does not exist.
FsWrite(w, key, content, outcome) ==
    IF \/ outcome # "ok"
       \/ RealFile(key) \in w.dirs
       \/ Dirname(RealFile(key)) \notin w.dirs
    THEN [ok |-> FALSE, disk |-> w.disk]
    ELSE [ok |-> TRUE, disk |-> [w.disk EXCEPT ![RealFile(key)] = Some(content)]]

\* The caller's record when its request is answered.
Answered(th, success, text, id) ==
    [th EXCEPT !.pc = "idle", !.success = success, !.text = text, !.id = id]

\* The first await of a handler: openDiff awaits fs.readFile (line 93);
\* getDocumentText, replaceText and truncateDocument await it when the store
\* has no entry (lines 137, 158, 224); saveDocument awaits fs.mkdir when it
\* has one (line 262); closeAllDiffs and scrollDiff await nothing.
FirstAwaitMutantReadFirst(op, has) ==
    IF op \in { "openDiff", "getDocumentText", "replaceText",
                "truncateDocument" } THEN "read"
    ELSE IF op = "saveDocument" /\ has THEN "mkdir"
    ELSE "none"
FirstAwait(op, has) ==
    IF op = "openDiff" THEN "read"
    ELSE IF op \in { "getDocumentText", "replaceText", "truncateDocument" }
            /\ ~has THEN "read"
    ELSE IF op = "saveDocument" /\ has THEN "mkdir"
    ELSE "none"

\* The content saveDocument writes: the constant it read from the store
\* before its first await (line 254).
SavedContentMutantFresh(w, th) ==
    IF MapHas(w.docs, th.key) THEN MapGet(w.docs, th.key) ELSE th.local
SavedContent(w, th) == th.local

\* From the call to the first await, or to the return when the handler
\* awaits nothing (an entry is found, saveDocument finds none, or the
\* handler makes no filesystem call).
CallStep(w, th, req) ==
    LET key == IF req.op \in { "closeAllDiffs", "scrollDiff" } THEN <<>>
               ELSE resolveFilePath(req.path)
        has == MapHas(w.docs, key)
        th1 == [th EXCEPT !.op = req.op, !.key = key, !.content = req.content,
                          !.startLine = req.startLine, !.endLine = req.endLine,
                          !.maxLines = req.maxLines, !.local = <<>>,
                          !.success = FALSE, !.text = <<>>, !.id = Absent,
                          !.calls = @ + 1]
        await == FirstAwait(req.op, has)
    IN  IF await # "none"
        THEN [w |-> w,
              th |-> [th1 EXCEPT !.pc = await,
                                 !.local = IF req.op = "saveDocument" /\ has
                                           THEN MapGet(w.docs, key) ELSE <<>>]]
        ELSE
        CASE req.op = "getDocumentText" ->
               [w |-> w, th |-> Answered(th1, TRUE, MapGet(w.docs, key), Absent)]
          [] req.op = "replaceText" ->
               [w |-> [w EXCEPT !.docs = MapSet(@, key,
                          ReplaceContent(MapGet(w.docs, key), req.startLine,
                                         req.endLine, req.content))],
                th |-> Answered(th1, TRUE, <<>>, Absent)]
          [] req.op = "truncateDocument" ->
               [w |-> [w EXCEPT !.docs = MapSet(@, key,
                          TruncateContent(MapGet(w.docs, key), req.maxLines))],
                th |-> Answered(th1, TRUE, <<>>, Absent)]
          [] req.op = "saveDocument" ->
               [w |-> w, th |-> Answered(th1, FALSE, <<>>, Absent)]
          [] req.op = "closeAllDiffs" ->
               [w |-> [w EXCEPT !.docs = Clear(@)],
                th |-> Answered(th1, TRUE, <<>>, Absent)]
          [] req.op = "scrollDiff" ->
               [w |-> w, th |-> Answered(th1, FALSE, <<>>, Absent)]

\* From the completion of the awaited call to the next await or the return.
ResumeStep(w, th, outcome) ==
    LET key == th.key IN
    CASE th.pc = "read" ->
         ( LET r == FsRead(w, key, outcome) IN
           CASE th.op = "openDiff" ->
                  [w |-> [w EXCEPT !.docs = MapSet(@, key, OpenContent(th.content))],
                   th |-> Answered(th, TRUE, <<>>, Some(key))]
             [] th.op = "getDocumentText" ->
                  [w |-> w, th |-> Answered(th, TRUE, r.value, Absent)]
             [] th.op = "replaceText" ->
                  [w |-> [w EXCEPT !.docs = MapSet(@, key,
                             ReplaceContent(r.value, th.startLine, th.endLine,
                                            th.content))],
                   th |-> Answered(th, TRUE, <<>>, Absent)]
             [] th.op = "truncateDocument" ->
                  IF r.ok
                  THEN [w |-> [w EXCEPT !.docs = MapSet(@, key,
                                  TruncateContent(r.value, th.maxLines))],
                        th |-> Answered(th, TRUE, <<>>, Absent)]
                  ELSE [w |-> w, th |-> Answered(th, FALSE, <<>>, Absent)] )
      [] th.pc = "mkdir" ->
         ( LET r == FsMkdir(w, Dirname(key), outcome) IN
           IF r.ok
           THEN [w |-> [w EXCEPT !.dirs = r.dirs], th |-> [th EXCEPT !.pc = "write"]]
           ELSE [w |-> w, th |-> Answered(th, FALSE, <<>>, Absent)] )
      [] th.pc = "write" ->
           LET r == FsWrite(w, key, SavedContent(w, th), outcome) IN
           IF r.ok
           THEN [w |-> [w EXCEPT !.disk = r.disk,
                                 !.docs = SaveDocs(w.docs, key, "ok")],
                 th |-> Answered(th, TRUE, <<>>, Absent)]
           ELSE [w |-> w, th |-> Answered(th, FALSE, <<>>, Absent)]

\* The outcomes the awaited call can have besides what the filesystem holds.
StepOutcomes(pc) ==
    IF pc = "read" THEN {"ok"} ELSE {"ok", "ioError"}

Callers == {"p", "q"}
NoCallers == [t \in Callers |-> IdleCaller]
AloneFrom(dk, ds) ==
    [w |-> WorldOf(EmptyMap, dk, ds), th |-> IdleCaller, nested |-> FALSE]

----------------------------------------------------------------------------
(* The specification: requests served one after the other, each awaited *)

\* The directories of a filesystem holding the files of d: the root
\* directory of the client and the directory of every file, with its parents.
DirsOf(d) ==
    {Root} \cup UNION { AncestorsOrSelf(Dirname(f)) :
                           f \in { g \in Files : IsSome(d[g]) } }

Init ==
    /\ cwd = Root
    /\ openDocuments = EmptyMap
    /\ disk \in { d \in [Files -> {Absent} \cup { Some(t) : t \in DiskTexts }] :
                      \A f \in Files : IsSome(d[f]) => Dirname(f) = Root }
    /\ dirs = DirsOf(disk)
    /\ last = NoRequest
    /\ sinceSave = [k \in AllKeys |-> "none"]
    /\ opened = NoneOpened
    /\ baseline = NoBaseline({})
    /\ nops = 0
    /\ inflight = NoCallers
    /\ alone = AloneFrom([f \in Files |-> Absent], {Root})

Next ==
    \/ \E p \in RequestPaths, c \in OpenTexts, rd \in ReadOutcomes :
          OpenDiff(p, c, rd)
    \/ \E p \in RequestPaths, rd \in ReadOutcomes : GetDocumentText(p, rd)
    \/ \E p \in RequestPaths, r \in LineRanges, t \in NewTexts,
          rd \in ReadOutcomes : ReplaceText(p, r[1], r[2], t, rd)
    \/ \E n \in LineArgs : ScrollDiff(Root \o <<"a">>, n)
    \/ \E p \in RequestPaths, m \in MaxLinesArgs, rd \in ReadOutcomes :
          TruncateDocument(p, m, rd)
    \/ \E p \in RequestPaths, io \in SaveOutcomes : SaveDocument(p, io)
    \/ CloseAllDiffs
    \/ \E files \in Batches : OpenMultiFileDiff(files)

Spec == Init /\ [][Next]_vars

----------------------------------------------------------------------------
(* The line edits of one overlay: replaceText and truncateDocument on the *)
(* entry of one path, over texts of up to four lines and line numbers    *)
(* on both sides of the text's ends.                                      *)

EditPath == RelPath(<<".", "a">>)
EditTexts ==
    { <<>>, <<"a">>, <<"a", NL>>, <<"a", NL, "b">>,
      <<"a", NL, "b", NL, "c", NL, "d">> }
EditNewTexts == { Absent, Some(<<>>), Some(<<"x", NL, "y">>) }
EditLineNumbers == { 1, 2, 3, 4 }
\* Every range inside a four-line text, and ranges that start before the
\* first line, end after the last one, or end before they start.
EditRanges ==
    { <<Some(q[1]), Some(q[2])>> :
         q \in { x \in EditLineNumbers \X EditLineNumbers : x[1] <= x[2] } }
    \cup { <<Absent, Absent>>, <<Some(1), Absent>>, <<Some(0), Some(0)>>,
           <<Some(2), Some(1)>>, <<Some(5), Some(5)>>, <<Some(0), Some(5)>>,
           <<Some(3), Some(1)>>, <<Some(1), Some(-1)>>, <<Some(-1), Some(2)>>,
           <<Some(2), Absent>>, <<Absent, Some(1)>>, <<Absent, Some(2)>> }
EditMaxLines == { Absent, Some(0), Some(1), Some(2), Some(5) }

InitEdit ==
    /\ cwd = Root
    /\ openDocuments = EmptyMap
    /\ disk = [f \in Files |-> Absent]
    /\ dirs = DirsOf(disk)
    /\ last = NoRequest
    /\ sinceSave = [k \in AllKeys |-> "none"]
    /\ opened = NoneOpened
    /\ baseline = NoBaseline({})
    /\ nops = 0
    /\ inflight = NoCallers
    /\ alone = AloneFrom([f \in Files |-> Absent], {Root})

NextEdit ==
    \/ \E c \in EditTexts : OpenDiff(EditPath, Some(c), "ok")
    \/ \E r \in EditRanges, t \in EditNewTexts :
          ReplaceText(EditPath, r[1], r[2], t, "ok")
    \/ \E m \in EditMaxLines : TruncateDocument(EditPath, m, "ok")

SpecEdit == InitEdit /\ [][NextEdit]_vars

----------------------------------------------------------------------------
(* Opening a path again while its entry is held.  The file can be written *)
(* by another program between two requests.                               *)

ReopenPath == RelPath(<<".", "a">>)
ReopenTexts == { <<"a", NL, "b">>, <<"b">> }

ExternalWrite(f, t) ==
    /\ nops < MaxOps
    /\ disk[f] # Some(t)
    /\ disk' = [disk EXCEPT ![f] = Some(t)]
    /\ dirs' = MkdirRecursive(dirs, Dirname(f))
    /\ last' = [NoRequest EXCEPT !.op = "externalWrite", !.key = f]
    /\ nops' = nops + 1
    /\ UNCHANGED conc
    /\ UNCHANGED <<cwd, openDocuments, sinceSave, opened, baseline>>

InitReopen ==
    /\ cwd = Root
    /\ openDocuments = EmptyMap
    /\ disk \in { d \in [Files -> {Absent} \cup { Some(t) : t \in DiskTexts }] :
                      \A f \in Files : IsSome(d[f]) => Dirname(f) = Root }
    /\ dirs = DirsOf(disk)
    /\ last = NoRequest
    /\ sinceSave = [k \in AllKeys |-> "none"]
    /\ opened = NoneOpened
    /\ baseline = NoBaseline(AllKeys)
    /\ nops = 0
    /\ inflight = NoCallers
    /\ alone = AloneFrom([f \in Files |-> Absent], {Root})

NextReopen ==
    \/ \E c \in OpenTexts : OpenDiff(ReopenPath, c, "ok")
    \/ GetDocumentText(ReopenPath, "ok")
    \/ \E r \in LineRanges, t \in NewTexts :
          ReplaceText(ReopenPath, r[1], r[2], t, "ok")
    \/ \E m \in MaxLinesArgs : TruncateDocument(ReopenPath, m, "ok")
    \/ SaveDocument(ReopenPath, "ok")
    \/ \E t \in ReopenTexts :
          ExternalWrite(RealFile(resolveFilePath(ReopenPath)), t)

SpecReopen == InitReopen /\ [][NextReopen]_vars

----------------------------------------------------------------------------
(* Batches in which the openDiff of some files answers success:false *)

ShownOutcomes == { "ok", "raises" }
FailingEntries ==
    { [path |-> p, content |-> c, shown |-> o] :
         p \in { RelPath(<<".", "a">>), RelPath(<<"d", "b">>) },
         c \in { Absent, Some(<<"a">>) }, o \in ShownOutcomes }
FailingBatches ==
    {<<>>} \cup { <<f>> : f \in FailingEntries }
           \cup { <<f, g>> : f \in FailingEntries, g \in FailingEntries }

NextBatch ==
    \/ \E files \in FailingBatches : OpenMultiFileDiff(files)
    \/ \E p \in RequestPaths : GetDocumentText(p, "ok")
    \/ CloseAllDiffs

SpecBatch == Init /\ [][NextBatch]_vars

----------------------------------------------------------------------------
(* The display of diffs of up to three parts, with blank lines, lines    *)
(* without terminator and empty parts among them.                        *)

PartValues ==
    { <<>>, <<NL>>, <<"x">>, <<"x", NL>>, <<"x", NL, NL, "y", NL>>,
      <<NL, "x", NL>> }
Parts ==
    { Part(k, v) : k \in { "added", "removed", "unchanged" },
                   v \in PartValues }

NextPresent == \E part \in Parts : DisplayPart(part)

SpecPresent == Init /\ [][NextPresent]_vars

----------------------------------------------------------------------------
(* The diffs of openDiff: one path, opened with texts of up to three     *)
(* lines, with and without a terminator of the last line and with a      *)
(* blank line, for a file that is missing or holds one of these texts.   *)

DiffPath == RelPath(<<".", "a">>)
DiffTexts ==
    { <<>>, <<"a", NL, "b">>, <<"a", NL, "b", NL>>, <<"c", NL, "b", NL, "d">>,
      <<"c", NL, "b", NL, "d", NL>>, <<"a", NL, NL, "b">>, <<"b", NL, "a">> }

InitDiff ==
    /\ cwd = Root
    /\ openDocuments = EmptyMap
    /\ disk \in { d \in [Files -> {Absent} \cup { Some(t) : t \in DiffTexts }] :
                      \A f \in Files :
                         IsSome(d[f]) => f = RealFile(resolveFilePath(DiffPath)) }
    /\ dirs = DirsOf(disk)
    /\ last = NoRequest
    /\ sinceSave = [k \in AllKeys |-> "none"]
    /\ opened = NoneOpened
    /\ baseline = NoBaseline({})
    /\ nops = 0
    /\ inflight = NoCallers
    /\ alone = AloneFrom([f \in Files |-> Absent], {Root})

NextDiff ==
    \/ \E c \in {Absent} \cup { Some(t) : t \in DiffTexts } :
          OpenDiff(DiffPath, c, "ok")
    \/ SaveDocument(DiffPath, "ok")

SpecDiff == InitDiff /\ [][NextDiff]_vars

----------------------------------------------------------------------------
(* Two callers that do not wait for each other: caller "p" sends requests *)
(* for one path, caller "q" for other paths, and the steps of their       *)
(* handlers interleave at the awaits.  `alone` is what the requests of    *)
(* "p" do, with the same outcomes of its filesystem calls, when "q" sends *)
(* nothing.                                                               *)

MaxCalls == 2      \* requests of one caller

ConcPathP == RelPath(<<"d", "b">>)
ConcPathsQ == { RelPath(<<".", "a">>), RelPath(<<"d">>) }
ConcKeyP == PathResolve(Root, ConcPathP)
ConcFiles ==
    { RealFile(PathResolve(Root, p)) : p \in {ConcPathP} \cup ConcPathsQ }
ConcRequests(p) ==
    { Request("openDiff", p, Some(<<"a">>), Absent, Absent, Absent),
      Request("getDocumentText", p, Absent, Absent, Absent, Absent),
      Request("replaceText", p, Some(<<"b">>), Absent, Absent, Absent),
      Request("truncateDocument", p, Absent, Absent, Absent, Some(1)),
      Request("saveDocument", p, Absent, Absent, Absent, Absent) }

\* One of two paths lies inside the other, taken as a directory.
IsPrefix(a, b) == Len(a) < Len(b) /\ SubSeq(b, 1, Len(a)) = a
Nested(k1, k2) ==
    IsPrefix(RealFile(k1), RealFile(k2)) \/ IsPrefix(RealFile(k2), RealFile(k1))

Call(t, req) ==
    /\ inflight[t].pc = "idle"
    /\ inflight[t].calls < MaxCalls
    /\ LET r == CallStep(WorldOf(openDocuments, disk, dirs), inflight[t], req)
       IN  /\ openDocuments' = r.w.docs
           /\ disk' = r.w.disk
           /\ dirs' = r.w.dirs
           /\ inflight' = [inflight EXCEPT ![t] = r.th]
    /\ alone' = IF t = "p"
                THEN LET a == CallStep(alone.w, alone.th, req)
                     IN  [alone EXCEPT !.w = a.w, !.th = a.th]
                ELSE [alone EXCEPT !.nested =
                         @ \/ Nested(ConcKeyP, resolveFilePath(req.path))]
    /\ UNCHANGED <<cwd, last, sinceSave, opened, baseline, nops>>

Resume(t, outcome) ==
    /\ inflight[t].pc # "idle"
    /\ outcome \in StepOutcomes(inflight[t].pc)
    /\ LET r == ResumeStep(WorldOf(openDocuments, disk, dirs), inflight[t],
                           outcome)
       IN  /\ openDocuments' = r.w.docs
           /\ disk' = r.w.disk
           /\ dirs' = r.w.dirs
           /\ inflight' = [inflight EXCEPT ![t] = r.th]
    /\ alone' = IF t = "p" /\ alone.th.pc # "idle"
                THEN LET a == ResumeStep(alone.w, alone.th, outcome)
                     IN  [alone EXCEPT !.w = a.w, !.th = a.th]
                ELSE alone
    /\ UNCHANGED <<cwd, last, sinceSave, opened, baseline, nops>>

InitConc ==
    /\ cwd = Root
    /\ openDocuments = EmptyMap
    /\ disk \in { d \in [ConcFiles -> {Absent} \cup { Some(t) : t \in DiskTexts }] :
                      \A f \in ConcFiles : IsSome(d[f]) => f = RealFile(ConcKeyP) }
    /\ dirs = {Root} \cup UNION { AncestorsOrSelf(Dirname(f)) :
                                    f \in { g \in ConcFiles : IsSome(disk[g]) } }
    /\ last = NoRequest
    /\ sinceSave = [k \in AllKeys |-> "none"]
    /\ opened = NoneOpened
    /\ baseline = NoBaseline({})
    /\ nops = 0
    /\ inflight = NoCallers
    /\ alone = AloneFrom(disk, dirs)

NextConc ==
    \/ \E req \in ConcRequests(ConcPathP) : Call("p", req)
    \/ \E q \in ConcPathsQ : \E req \in ConcRequests(q) : Call("q", req)
    \/ \E t \in Callers, o \in {"ok", "ioError"} : Resume(t, o)

SpecConc == InitConc /\ [][NextConc]_vars

----------------------------------------------------------------------------
(* Truncations of paths whose files exist or not, maxLines 0 included.   *)

TruncPaths == { RelPath(<<".", "a">>), RelPath(<<"d", "b">>) }
TruncTexts == { <<"a">>, <<"a", NL, "b">> }
TruncMaxLines == { Some(0), Some(1), Some(2), Some(5) }

InitTrunc ==
    /\ cwd = Root
    /\ openDocuments = EmptyMap
    /\ disk \in [Files -> {Absent} \cup { Some(t) : t \in TruncTexts }]
    /\ dirs = DirsOf(disk)
    /\ last = NoRequest
    /\ sinceSave = [k \in AllKeys |-> "none"]
    /\ opened = NoneOpened
    /\ baseline = NoBaseline({})
    /\ nops = 0
    /\ inflight = NoCallers
    /\ alone = AloneFrom([f \in Files |-> Absent], {Root})

NextTrunc ==
    \/ \E p \in TruncPaths, m \in TruncMaxLines, rd \in ReadOutcomes :
          TruncateDocument(p, m, rd)
    \/ CloseAllDiffs

SpecTrunc == InitTrunc /\ [][NextTrunc]_vars

----------------------------------------------------------------------------
(* The root directory changed between requests: two roots, a relative    *)
(* path and the absolute paths it stands for under each root.            *)

CwdRoots == { <<"r">>, <<"s">> }
CwdPaths ==
    { RelPath(<<".", "a">>), AbsPath(<<"r", "a">>), AbsPath(<<"s", "a">>) }
CwdKeys ==
    { IF isAbsolute(p) THEN p.segs ELSE PathResolve(root, p) :
         p \in CwdPaths, root \in CwdRoots }
CwdFiles == { RealFile(k) : k \in CwdKeys }

InitCwd ==
    /\ cwd = Root
    /\ openDocuments = EmptyMap
    /\ disk \in { d \in [CwdFiles -> {Absent} \cup { Some(t) : t \in DiskTexts }] :
                      \A f \in CwdFiles : IsSome(d[f]) => f = <<"s", "a">> }
    /\ dirs = CwdRoots
    /\ last = NoRequest
    /\ sinceSave = [k \in CwdKeys |-> "none"]
    /\ opened = NoneOpened
    /\ baseline = NoBaseline({})
    /\ nops = 0
    /\ inflight = NoCallers
    /\ alone = AloneFrom([f \in Files |-> Absent], {Root})

NextCwd ==
    \/ \E dir \in CwdRoots : SetCurrentWorkingDirectory(dir)
    \/ \E p \in CwdPaths : OpenDiff(p, Some(<<"a">>), "ok")
    \/ \E p \in CwdPaths : GetDocumentText(p, "ok")
    \/ \E p \in CwdPaths : SaveDocument(p, "ok")
    \/ CloseAllDiffs

SpecCwd == InitCwd /\ [][NextCwd]_vars

----------------------------------------------------------------------------
(* Two callers that send requests for the same path without waiting for  *)
(* each other, from a store that holds an entry of the path.             *)

RacePath == RelPath(<<".", "a">>)
RaceKey == PathResolve(Root, RacePath)
RaceRequests ==
    { Request("openDiff", RacePath, Some(<<"c">>), Absent, Absent, Absent),
      Request("getDocumentText", RacePath, Absent, Absent, Absent, Absent),
      Request("replaceText", RacePath, Some(<<"b">>), Absent, Absent, Absent),
      Request("truncateDocument", RacePath, Absent, Absent, Absent, Some(1)),
      Request("saveDocument", RacePath, Absent, Absent, Absent, Absent),
      Request("closeAllDiffs", RacePath, Absent, Absent, Absent, Absent),
      Request("scrollDiff", RacePath, Absent, Absent, Absent, Absent) }

InitRace ==
    /\ cwd = Root
    /\ openDocuments \in { EmptyMap, MapSet(EmptyMap, RaceKey, <<"a", NL, "b">>) }
    /\ disk \in { d \in [Files -> {Absent} \cup { Some(t) : t \in DiskTexts }] :
                      \A f \in Files : IsSome(d[f]) => f = RealFile(RaceKey) }
    /\ dirs = DirsOf(disk)
    /\ last = NoRequest
    /\ sinceSave = [k \in AllKeys |-> "none"]
    /\ opened = NoneOpened
    /\ baseline = NoBaseline({})
    /\ nops = 0
    /\ inflight = NoCallers
    /\ alone = [AloneFrom(disk, dirs) EXCEPT !.w.docs = openDocuments]

NextRace ==
    \/ \E t \in Callers, req \in RaceRequests : Call(t, req)
    \/ \E t \in Callers, o \in {"ok", "ioError"} : Resume(t, o)

SpecRace == InitRace /\ [][NextRace]_vars

----------------------------------------------------------------------------
(* Properties of the store, checked under Spec *)

PathOps ==
    { "openDiff", "getDocumentText", "replaceText", "truncateDocument",
      "saveDocument" }

\* The canonical form of a request path: resolved against the root
\* directory and normalized.
InNormalForm(p) == p.segs = Normalize(p.segs)
Canonical(p) == Normalize(IF p.abs THEN p.segs ELSE cwd \o p.segs)

\* The key a request path stands for: the canonical form of a relative
\* path, an absolute path as written.
KeyOf(p) == IF p.abs THEN p.segs ELSE Canonical(p)

\* C1: openDiff(P, C) directly followed by getDocumentText(P) returns
\* exactly C, whatever the store and the disk held before.
C1_OpenThenGetText ==
    ( /\ last.op = "getDocumentText"
      /\ last.after.op = "openDiff"
      /\ last.after.key = last.key
      /\ IsSome(last.after.content) )
    => last.text = Val(last.after.content)

\* The open gave the empty text for a path whose file holds another text,
\* and the read that followed returned the empty text.
C1_Witness ==
    /\ last.op = "getDocumentText"
    /\ last.after.op = "openDiff"
    /\ last.after.key = last.key
    /\ last.after.content = Some(<<>>)
    /\ disk[RealFile(last.key)] = Some(<<"a", NL, "b">>)
    /\ last.text = <<>>

\* C2: a saveDocument(P) that returns success leaves the file of P holding
\* the working content the store held for P when the save was requested.
C2_SaveWritesWorking ==
    (last.op = "saveDocument" /\ last.success)
    => (IsSome(last.was) /\ disk[RealFile(last.key)] = last.was)

\* A save of a content that only a replace of line 1 of "a\nb" produces.
C2_Witness ==
    /\ last.op = "saveDocument"
    /\ last.success
    /\ last.was = Some(<<"b", NL, "b">>)
    /\ disk[RealFile(last.key)] = Some(<<"b", NL, "b">>)

\* C3 as stated: after a successful save of P, P has no entry and a later
\* save of P fails, whatever was requested in between except an open of P.
C3_Original ==
    [][ \A k \in AllKeys :
          /\ sinceSave'[k] # "none" => ~MapHas(openDocuments', k)
          /\ ( /\ sinceSave[k] # "none"
               /\ last'.op = "saveDocument"
               /\ last'.key = k ) => ~last'.success ]_vars

\* C3 as amended: after a successful save of P, P has no entry and a later
\* save of P fails, as long as no open, replace or truncate of P was
\* requested in between.
C3_SaveClearsPending ==
    [][ \A k \in AllKeys :
          /\ sinceSave'[k] = "clean" => ~MapHas(openDocuments', k)
          /\ ( /\ sinceSave[k] = "clean"
               /\ last'.op = "saveDocument"
               /\ last'.key = k ) => ~last'.success ]_vars

\* A save of a path that was saved before and not opened or edited since
\* has failed, having found no entry.
C3_Witness ==
    /\ last.op = "saveDocument"
    /\ sinceSave[last.key] = "clean"
    /\ ~last.success
    /\ ~IsSome(last.was)
    /\ IsSome(disk[RealFile(last.key)])

\* C4: saveDocument on a path with no entry returns success:false, creates
\* no directory, writes no file and leaves the store unchanged.
C4_SaveNothingPending ==
    [][ (last'.op = "saveDocument" /\ ~MapHas(openDocuments, last'.key))
        => ( /\ ~last'.success
             /\ dirs' = dirs
             /\ disk' = disk
             /\ openDocuments' = openDocuments ) ]_vars

\* A failed save of a path with no entry whose directory does not exist.
C4_Witness ==
    /\ last.op = "saveDocument"
    /\ ~IsSome(last.was)
    /\ ~last.success
    /\ Dirname(RealFile(last.key)) \notin dirs

\* The lines of a text and the text of a sequence of lines.
LinesOf(text) == Split(text)
TextOf(lines) == Join(lines)

\* C5: on an entry of n lines, replaceText with 1 <= startLine <= endLine
\* <= n and a non-empty newText leaves lines 1..startLine-1, then the lines
\* of newText, then lines endLine+1..n.
C5_RangeReplace ==
    ( /\ last.op = "replaceText"
      /\ IsSome(last.was)
      /\ IsSome(last.startLine) /\ IsSome(last.endLine)
      /\ 1 <= Val(last.startLine)
      /\ Val(last.startLine) <= Val(last.endLine)
      /\ Val(last.endLine) <= Len(LinesOf(Val(last.was)))
      /\ IsSome(last.content) /\ Val(last.content) # <<>> )
    => LET L == LinesOf(Val(last.was))
           n == Len(L)
       IN  /\ MapHas(openDocuments, last.key)
           /\ MapGet(openDocuments, last.key) =
                 TextOf(SubSeq(L, 1, Val(last.startLine) - 1)
                        \o LinesOf(Val(last.content))
                        \o SubSeq(L, Val(last.endLine) + 1, n))

\* Lines 2..3 of a four-line entry were replaced by two lines.
C5_Witness ==
    /\ last.op = "replaceText"
    /\ last.was = Some(<<"a", NL, "b", NL, "c", NL, "d">>)
    /\ last.startLine = Some(2) /\ last.endLine = Some(3)
    /\ last.content = Some(<<"x", NL, "y">>)
    /\ MapHas(openDocuments, last.key)
    /\ MapGet(openDocuments, last.key) = <<"a", NL, "x", NL, "y", NL, "d">>

\* C6: on an entry, truncateDocument with maxLines = n >= 0 leaves exactly
\* the first min(n, line count) lines of the entry's content.
C6_TruncateKeepsFirstLines ==
    ( /\ last.op = "truncateDocument"
      /\ IsSome(last.was)
      /\ IsSome(last.maxLines) /\ Val(last.maxLines) >= 0 )
    => LET L == LinesOf(Val(last.was))
           k == Min(Val(last.maxLines), Len(L))
       IN  /\ MapHas(openDocuments, last.key)
           /\ MapGet(openDocuments, last.key) = TextOf(SubSeq(L, 1, k))

\* C7 as stated: closeAllDiffs after N opens reports N and leaves the disk
\* untouched.
C7_Original ==
    [][ last'.op = "closeAllDiffs"
        => ( /\ opened.known => last'.count = opened.n
             /\ disk' = disk
             /\ dirs' = dirs ) ]_vars

\* C7 as amended: closeAllDiffs after N opens reports the number of
\* distinct keys among the N opened, at most N, and leaves the disk
\* untouched.
C7_DiscardCountsKeys ==
    [][ last'.op = "closeAllDiffs"
        => ( /\ opened.known =>
                   /\ last'.count = Cardinality(opened.keys)
                   /\ last'.count <= opened.n
             /\ disk' = disk
             /\ dirs' = dirs ) ]_vars

\* Three opens on two keys, then closeAllDiffs reporting 2.
C7_Witness ==
    /\ last.op = "closeAllDiffs"
    /\ last.opened.known
    /\ last.opened.n = 3
    /\ last.count = 2

\* The keys and the paths of a batch.
BatchKeys(paths) == { KeyOf(paths[i]) : i \in 1..Len(paths) }
BatchPaths(paths) == { paths[i] : i \in 1..Len(paths) }

\* C8 as stated: after closeAllDiffs the store is empty, a save then fails,
\* and after an openMultiFileDiff over k distinct paths the count is k.
C8_Original ==
    [][ /\ last'.op = "closeAllDiffs" =>
             /\ openDocuments' = EmptyMap
             /\ (last.op = "openMultiFileDiff" /\ last.success)
                   => last'.count = Cardinality(BatchPaths(last.files))
        /\ (last.op = "closeAllDiffs" /\ last'.op = "saveDocument")
             => ~last'.success ]_vars

\* C8 as amended: after closeAllDiffs the store is empty and a save then
\* fails; the count is the number of entries the store held, which after an
\* openMultiFileDiff on an empty store is the number of distinct keys of
\* the batch (two paths of one file count once when their keys agree).
C8_DiscardEmptiesStore ==
    [][ /\ last'.op = "closeAllDiffs" =>
             /\ openDocuments' = EmptyMap
             /\ last'.count = Cardinality(DOMAIN openDocuments)
             /\ ( /\ last.op = "openMultiFileDiff"
                  /\ last.success
                  /\ opened.known
                  /\ opened.n = Len(last.files) )
                   => last'.count = Cardinality(BatchKeys(last.files))
        /\ (last.op = "closeAllDiffs" /\ last'.op = "saveDocument")
             => ~last'.success ]_vars

\* closeAllDiffs right after an openMultiFileDiff of two paths on an empty
\* store, reporting 2 and leaving the store empty.
C8_Witness ==
    /\ last.op = "closeAllDiffs"
    /\ last.after.op = "openMultiFileDiff"
    /\ Len(last.after.files) = 2
    /\ last.opened.known
    /\ last.opened.n = 2
    /\ last.count = 2
    /\ openDocuments = EmptyMap

\* C9 as stated: a relative path and its resolved absolute form address the
\* same entry, open returns that absolute path as id, and the store never
\* holds two entries for one file.
C9_Original ==
    /\ (last.op \in PathOps /\ (~last.path.abs \/ InNormalForm(last.path)))
          => /\ last.key = Canonical(last.path)
             /\ last.op = "openDiff" => last.id = Some(Canonical(last.path))
    /\ \A k1 \in DOMAIN openDocuments : \A k2 \in DOMAIN openDocuments :
          RealFile(k1) = RealFile(k2) => k1 = k2

\* C9 as amended: a relative path and its resolved absolute form address the
\* same single entry and open returns that absolute path as id; an absolute
\* path that is not in normal form is its own key (so the store can hold a
\* second entry for a file addressed through such a path).
C9_OneKeyPerPath ==
    [][ last'.op \in PathOps =>
          LET p == last'.path
              k == IF p.abs /\ ~InNormalForm(p) THEN p.segs ELSE Canonical(p)
          IN  /\ last'.key = k
              /\ last'.op = "openDiff" =>
                    (last'.id = Some(k) /\ MapHas(openDocuments', k))
              /\ \A x \in AllKeys \ {k} :
                    Was(openDocuments', x) = Was(openDocuments, x) ]_vars

\* A read through "/r/a" right after an open through "./a" returned the
\* content of that open.
C9_Witness ==
    /\ last.op = "getDocumentText"
    /\ last.path = AbsPath(<<"r", "a">>)
    /\ last.after.op = "openDiff"
    /\ last.after.path = RelPath(<<".", "a">>)
    /\ last.after.content = Some(<<"a", NL, "b">>)
    /\ last.text = <<"a", NL, "b">>
    /\ DOMAIN openDocuments = {<<"r", "a">>}

\* C10 as stated: on a path with no entry, replace, truncate, getText, save
\* and scroll leave the path without an entry.
C10_Original ==
    [][ \A k \in AllKeys :
          ( /\ ~MapHas(openDocuments, k)
            /\ last'.op \in { "replaceText", "truncateDocument",
                              "getDocumentText", "saveDocument",
                              "scrollDiff" } )
          => ~MapHas(openDocuments', k) ]_vars

\* C10 as amended: a path with no entry gets one only through openDiff,
\* openMultiFileDiff, replaceText, or a truncateDocument that can read the
\* file; getText, save, scroll and closeAllDiffs never create an entry.
C10_EntryCreatedOnlyBy ==
    [][ \A k \in AllKeys :
          (~MapHas(openDocuments, k) /\ MapHas(openDocuments', k))
          => \/ last'.op \in {"openDiff", "replaceText"} /\ last'.key = k
             \/ /\ last'.op = "truncateDocument"
                /\ last'.key = k
                /\ last'.success
                /\ IsSome(disk[RealFile(k)])
             \/ /\ last'.op = "openMultiFileDiff"
                /\ k \in BatchKeys(last'.files) ]_vars

\* A replace created the entry of a path that had none and whose file does
\* not exist.
C10_Witness ==
    /\ last.op = "replaceText"
    /\ ~IsSome(last.was)
    /\ MapHas(openDocuments, last.key)
    /\ ~IsSome(disk[RealFile(last.key)])

\* C11: an openDiff of a path whose entry is held since an earlier openDiff
\* shows as original content the one that earlier openDiff read, whatever
\* the file holds now and whatever was requested in between.
C11_BaselineFixed ==
    [][ ( /\ last'.op = "openDiff"
          /\ last'.key \in DOMAIN baseline
          /\ MapHas(openDocuments, last'.key)
          /\ IsSome(baseline[last'.key]) )
        => last'.original = Val(baseline[last'.key]) ]_vars

\* What the requests of caller "p" got and left, with "q" and alone.
SameAsAlone ==
    /\ inflight["p"] = alone.th
    /\ Was(openDocuments, ConcKeyP) = Was(alone.w.docs, ConcKeyP)
    /\ disk[RealFile(ConcKeyP)] = alone.w.disk[RealFile(ConcKeyP)]

C13_Original == last.op = "openMultiFileDiff" => last.success

\* C13 as amended: openMultiFileDiff answers success:true for every file
\* list that is not empty, however many of its openDiff calls failed, and
\* success:false for the empty list.
C13_BatchSuccess ==
    last.op = "openMultiFileDiff" => (last.success <=> last.files # <<>>)

\* A batch of two files whose openDiff calls both failed answered
\* success:true.
C13_Witness ==
    /\ last.op = "openMultiFileDiff"
    /\ Len(last.files) = 2
    /\ last.failed = 2
    /\ last.success

\* C14: whatever the outcome of the fs calls of an operation (success, file
\* not found, error of the read, of mkdir or of writeFile), the operation
\* answers with a response and no exception leaves it.
C14_NoExceptionEscapes == last.op # "init" => ~last.threw

\* A save whose writeFile failed answered success:false.
C14_Witness ==
    /\ last.op = "saveDocument"
    /\ last.failure = "writeFile"
    /\ ~last.success
    /\ ~last.threw

\* C15: replaceText of a path changes no file and no directory on disk, and
\* leaves every key other than the path's key as it was: in the store with
\* the same content, or not in the store.
C15_ReplaceFrame ==
    [][ last'.op = "replaceText"
        => /\ disk' = disk
           /\ dirs' = dirs
           /\ \A k \in AllKeys \ {last'.key} :
                 Was(openDocuments', k) = Was(openDocuments, k) ]_vars

\* A replaceText was served while the store held another key, for a file
\* that exists on disk.
C15_Witness ==
    /\ last.op = "replaceText"
    /\ DOMAIN openDocuments \ {last.key} # {}
    /\ IsSome(disk[RealFile(last.key)])

\* C16: a replaceText that gives neither startLine nor endLine makes the
\* entry of its key the new text, the empty text when no new text is given,
\* whatever the entry or the file held before; a getDocumentText of the
\* same key served right after it answers that text.
WholeReplace(l) ==
    l.op = "replaceText" /\ ~IsSome(l.startLine) /\ ~IsSome(l.endLine)
GivenText(l) == IF IsSome(l.content) THEN Val(l.content) ELSE <<>>
C16_WholeReplace ==
    [][ /\ WholeReplace(last')
           => Was(openDocuments', last'.key) = Some(GivenText(last'))
        /\ ( WholeReplace(last) /\ last'.op = "getDocumentText"
                                /\ last'.key = last.key )
           => last'.text = GivenText(last) ]_vars

\* A replaceText without bounds and without new text emptied an entry that
\* held two lines, and a further request can follow.
C16_Witness ==
    /\ WholeReplace(last)
    /\ last.content = Absent
    /\ last.was = Some(<<"a", NL, "b">>)
    /\ openDocuments[last.key] = <<>>
    /\ nops < MaxOps

\* The lines of a part: the pieces of its value that end at a line
\* terminator, and the rest of the value when it is not empty.
PartLines(value) ==
    LET arr == Split(value)
    IN  IF arr[Len(arr)] = <<>> THEN SubSeq(arr, 1, Len(arr) - 1) ELSE arr

\* The rows with a counter that advances by one for each line of an added
\* or unchanged part and not at all for the lines of a removed part.
RECURSIVE CountedRows(_, _)
CountedRows(diff, n) ==
    IF diff = <<>> THEN <<>>
    ELSE LET lines == PartLines(Head(diff).value)
             kind  == Head(diff).kind
         IN  IF kind = "removed"
             THEN [i \in 1..Len(lines) |-> Row("-", n, lines[i])]
                     \o CountedRows(Tail(diff), n)
             ELSE [i \in 1..Len(lines) |->
                      Row(IF kind = "added" THEN "+" ELSE " ", n + i - 1,
                          lines[i])]
                     \o CountedRows(Tail(diff), n + Len(lines))

\* C17: for every diff, the number shown beside an added or unchanged line
\* is the position of the line in the resulting document, one more for each
\* added or unchanged line before it, and a removed line is shown with the
\* counter as it stands there.
C17_CounterTracksResult ==
    last.op = "displayDiff" => last.rows = CountedRows(last.hunks, 1)

\* The lines of the parts of the given kinds, in order.
RECURSIVE LinesOfKinds(_, _)
LinesOfKinds(diff, kinds) ==
    IF diff = <<>> THEN <<>>
    ELSE (IF Head(diff).kind \in kinds THEN PartLines(Head(diff).value)
          ELSE <<>>) \o LinesOfKinds(Tail(diff), kinds)

\* C18: openDiff of a path whose file does not exist answers success, and
\* its diff has no removed and no unchanged line and one added line for each
\* line of the content (two for the content with the lines a and b).
C18_NewFileAllAdded ==
    ( last.op = "openDiff" /\ ~IsSome(disk[RealFile(last.key)]) )
    => /\ last.success
       /\ \A i \in 1..Len(last.hunks) : last.hunks[i].kind = "added"
       /\ LinesOfKinds(last.hunks, {"added"})
             = PartLines(OpenContent(last.content))
       /\ \A i \in 1..Len(last.rows) : last.rows[i].mark = "+"

\* A missing file was opened with the content a, b, over an entry that
\* held other text: the diff is one added part of two lines.
C18_Witness ==
    /\ last.op = "openDiff"
    /\ ~IsSome(disk[RealFile(last.key)])
    /\ last.content = Some(<<"a", NL, "b">>)
    /\ last.hunks = <<Part("added", <<"a", NL, "b">>)>>
    /\ Len(last.rows) = 2
    /\ nops = 2

\* The subsequences of a list, and the length of the longest one that two
\* lists have in common.
RECURSIVE Subsequences(_)
Subsequences(a) ==
    IF a = <<>> THEN { <<>> }
    ELSE LET r == Subsequences(Tail(a))
         IN  r \cup { <<Head(a)>> \o x : x \in r }
LongestCommon(a, b) ==
    LET common == Subsequences(a) \cap Subsequences(b)
    IN  CHOOSE n \in 0..Len(a) :
           /\ \E x \in common : Len(x) = n
           /\ \A x \in common : Len(x) <= n

\* The lines of a diff with their kinds, in order.
RECURSIVE Classified(_)
Classified(diff) ==
    IF diff = <<>> THEN <<>>
    ELSE LET lines == PartLines(Head(diff).value)
         IN  [i \in 1..Len(lines) |-> <<Head(diff).kind, lines[i]>>]
                \o Classified(Tail(diff))

\* C19: the parts of the diff of a baseline and a candidate cover both: the
\* removed and unchanged lines in order are the baseline's lines, the added
\* and unchanged lines in order are the candidate's lines, the unchanged
\* lines are as many as a longest common subsequence, no added part comes
\* right before a removed part, and the baseline a, b against the
\* candidate c, b, d gives a removed, c added, b unchanged, d added.
C19_DifferCovers ==
    last.op = "openDiff"
    => LET old == PartLines(last.original)
           new == PartLines(OpenContent(last.content))
           h   == last.hunks
       IN  /\ LinesOfKinds(h, {"removed", "unchanged"}) = old
           /\ LinesOfKinds(h, {"added", "unchanged"}) = new
           /\ Len(LinesOfKinds(h, {"unchanged"})) = LongestCommon(old, new)
           /\ \A i \in 1..(Len(h) - 1) :
                 ~(h[i].kind = "added" /\ h[i + 1].kind = "removed")
           /\ ( old = << <<"a">>, <<"b">> >>
                 /\ new = << <<"c">>, <<"b">>, <<"d">> >> )
              => Classified(h) = << <<"removed", <<"a">> >>,
                                    <<"added", <<"c">> >>,
                                    <<"unchanged", <<"b">> >>,
                                    <<"added", <<"d">> >> >>

\* The file held a, b and was opened with c, b, d: four parts.
C19_Witness ==
    /\ last.op = "openDiff"
    /\ last.original = <<"a", NL, "b", NL>>
    /\ last.content = Some(<<"c", NL, "b", NL, "d", NL>>)
    /\ Len(last.hunks) = 4
    /\ last.hunks[1].kind = "removed"

\* getDocumentText leaves the store and the disk as they were and answers
\* the entry of its key when the store holds one.
GetTextFrame ==
    /\ openDocuments' = openDocuments
    /\ disk' = disk
    /\ dirs' = dirs
    /\ MapHas(openDocuments, last'.key)
          => last'.text = MapGet(openDocuments, last'.key)

\* C20 as stated: getDocumentText changes neither the store nor the disk;
\* it answers the entry of the path when there is one and the content of
\* the file on disk when there is none, and makes no entry.
C20_Original ==
    [][ last'.op = "getDocumentText"
        => /\ GetTextFrame
           /\ ( ~MapHas(openDocuments, last'.key)
                 /\ IsSome(disk[RealFile(last'.key)]) )
              => last'.text = Val(disk[RealFile(last'.key)]) ]_vars

\* C20 as amended: the same, where without an entry the answer is the
\* content of the file when the read succeeds and the empty text when the
\* file is missing or the read fails.
C20_GetTextFrame ==
    [][ last'.op = "getDocumentText"
        => /\ GetTextFrame
           /\ ~MapHas(openDocuments, last'.key)
              => last'.text = IF last'.failure = "none"
                              THEN Val(disk[RealFile(last'.key)]) ELSE <<>> ]_vars

\* A getDocumentText of a path without entry answered the text of its
\* file while the store held another path, and made no entry.
C20_Witness ==
    /\ last.op = "getDocumentText"
    /\ ~MapHas(openDocuments, last.key)
    /\ openDocuments # EmptyMap
    /\ last.failure = "none"
    /\ last.text = <<"a", NL, "b">>

\* A number clamped to [0, n].
Clamp(x, n) == Max(0, Min(x, n))

\* C21: on an entry of n lines, replaceText with any two integers startLine
\* and endLine answers success and leaves the old lines with the 0-based
\* slice [a, b) removed (nothing when b <= a) and the lines of newText
\* (none when it is absent or empty) put at index a, where a is startLine-1
\* and b is endLine, both clamped to [0, n].
C21_ClampedRange ==
    ( /\ last.op = "replaceText"
      /\ IsSome(last.was)
      /\ IsSome(last.startLine) /\ IsSome(last.endLine) )
    => LET L == LinesOf(Val(last.was))
           n == Len(L)
           a == Clamp(Val(last.startLine) - 1, n)
           b == Clamp(Val(last.endLine), n)
           newLines == IF TruthyText(last.content)
                       THEN LinesOf(Val(last.content)) ELSE <<>>
       IN  /\ last.success
           /\ MapHas(openDocuments, last.key)
           /\ MapGet(openDocuments, last.key) =
                 TextOf(SubSeq(L, 1, a) \o newLines
                        \o SubSeq(L, Max(a, b) + 1, n))

\* C22: a saveDocument that succeeds writes the content it read from the
\* store before it was suspended and then deletes the entry of the path,
\* whatever another request made of the entry while the save was
\* suspended: a newer content of the entry is then neither in the file nor
\* in the store.
C22_SaveRace ==
    [][ \A t \in Callers :
          ( /\ inflight[t].op = "saveDocument"
            /\ inflight[t].pc = "write"
            /\ inflight'[t].pc = "idle"
            /\ inflight'[t].success )
          => /\ disk'[RealFile(inflight[t].key)] = Some(inflight[t].local)
             /\ ~MapHas(openDocuments', inflight[t].key) ]_vars

\* Caller p saved and caller q replaced the content with b, one request
\* each, both answered success: the file holds the old content a, b and
\* the store holds nothing.
C22_Witness ==
    /\ inflight["p"].op = "saveDocument" /\ inflight["p"].pc = "idle"
    /\ inflight["p"].success /\ inflight["p"].calls = 1
    /\ inflight["q"].op = "replaceText" /\ inflight["q"].pc = "idle"
    /\ inflight["q"].success /\ inflight["q"].calls = 1
    /\ inflight["p"].local = <<"a", NL, "b">>
    /\ disk[RealFile(RaceKey)] = Some(<<"a", NL, "b">>)
    /\ ~MapHas(openDocuments, RaceKey)

\* C23: a handler is suspended only at the filesystem calls of openDiff, of
\* saveDocument and of the read that getDocumentText, replaceText and
\* truncateDocument make when the store has no entry.  With an entry these
\* three, and closeAllDiffs and scrollDiff always, are answered in the step
\* of their call, in which the store is read and written.
C23_SuspensionPoints ==
    [][ \A t \in Callers :
          ( inflight[t].pc = "idle" /\ inflight'[t].calls = inflight[t].calls + 1 )
          => LET op  == inflight'[t].op
                 key == inflight'[t].key
                 had == MapHas(openDocuments, key)
                 pc  == inflight'[t].pc
             IN  /\ ( \/ op \in { "closeAllDiffs", "scrollDiff" }
                      \/ ( op \in { "getDocumentText", "replaceText",
                                     "truncateDocument" } /\ had ) )
                    => pc = "idle"
                 /\ pc # "idle"
                    => \/ op = "openDiff" /\ pc = "read"
                       \/ op = "saveDocument" /\ pc = "mkdir"
                       \/ /\ op \in { "getDocumentText", "replaceText",
                                       "truncateDocument" }
                          /\ ~had /\ pc = "read"
                 /\ ( op = "replaceText" /\ had )
                    => openDocuments' = MapSet(openDocuments, key,
                          ReplaceContent(MapGet(openDocuments, key),
                                         inflight'[t].startLine,
                                         inflight'[t].endLine,
                                         inflight'[t].content))
                 /\ ( op = "truncateDocument" /\ had )
                    => openDocuments' = MapSet(openDocuments, key,
                          TruncateContent(MapGet(openDocuments, key),
                                          inflight'[t].maxLines))
                 /\ op = "closeAllDiffs" => openDocuments' = EmptyMap ]_vars

\* While the save of caller p is suspended at its write, the replaceText
\* of caller q was answered in one step and the entry holds its text.
C23_Witness ==
    /\ inflight["p"].op = "saveDocument" /\ inflight["p"].pc = "write"
    /\ inflight["q"].op = "replaceText" /\ inflight["q"].pc = "idle"
    /\ inflight["q"].success /\ inflight["q"].calls = 1
    /\ MapHas(openDocuments, RaceKey)
    /\ MapGet(openDocuments, RaceKey) = <<"b">>

\* C24: a saveDocument whose mkdir or writeFile fails answers success:false
\* and leaves the entry of the path in the store with the content it had;
\* a save removes the entry only when it wrote the file.
C24_FailedSaveKeepsEntry ==
    last.op = "saveDocument"
    => /\ last.failure # "none"
          => /\ ~last.success
             /\ IsSome(last.was)
             /\ Was(openDocuments, last.key) = last.was
       /\ ( IsSome(last.was) /\ ~MapHas(openDocuments, last.key) )
          => /\ last.success
             /\ disk[RealFile(last.key)] = last.was

\* The mkdir of a save failed: the entry is still held, with its content,
\* and nothing was written.
C24_Witness ==
    /\ last.op = "saveDocument"
    /\ last.failure = "mkdir"
    /\ ~last.success
    /\ MapHas(openDocuments, last.key)
    /\ MapGet(openDocuments, last.key) = <<"a", NL, "b">>
    /\ ~IsSome(disk[RealFile(last.key)])

\* The read that a request made for want of an entry failed although the
\* file exists.
UnexpectedReadError(l) ==
    /\ ~IsSome(l.was)
    /\ l.failure = "readFile"
    /\ IsSome(disk[RealFile(l.key)])

\* C25: replaceText answers success:false exactly when the store has no
\* entry of the path and the read of its file fails for another reason
\* than the file not existing, and then leaves the store without the
\* entry; in every other case it answers success:true.
C25_ReplaceFailsOnReadError ==
    last.op = "replaceText"
    => /\ ~last.success <=> UnexpectedReadError(last)
       /\ UnexpectedReadError(last) => ~MapHas(openDocuments, last.key)

\* C26: replaceText of a path without entry starts from the content of the
\* file when its read succeeds and from the empty text when it fails; it
\* answers success and the result of the replacement is the entry.
C26_ReplaceStartsFromDisk ==
    ( last.op = "replaceText" /\ ~IsSome(last.was) )
    => LET start == IF last.failure = "none"
                    THEN Val(disk[RealFile(last.key)]) ELSE <<>>
       IN  /\ last.success
           /\ MapHas(openDocuments, last.key)
           /\ MapGet(openDocuments, last.key) =
                 ReplaceContent(start, last.startLine, last.endLine,
                                last.content)

\* Line 1 of the file a, b was replaced by b through a path without entry.
C26_Witness ==
    /\ last.op = "replaceText"
    /\ ~IsSome(last.was)
    /\ last.failure = "none"
    /\ last.startLine = Some(1) /\ last.endLine = Some(1)
    /\ disk[RealFile(last.key)] = Some(<<"a", NL, "b">>)
    /\ MapGet(openDocuments, last.key) = <<"b", NL, "b">>

\* The mark of a kind of part.
MarkOf(kind) ==
    IF kind = "added" THEN "+" ELSE IF kind = "removed" THEN "-" ELSE " "

\* C27: the display has one row for every line of every part, in order,
\* blank lines that are not the empty piece after a part's last terminator
\* included, and the counter has advanced once for every added and every
\* unchanged line.
C27_OneRowPerLine ==
    last.op = "displayDiff"
    => LET lines == Classified(last.hunks)
       IN  /\ Len(last.rows) = Len(lines)
           /\ \A i \in 1..Len(lines) :
                 /\ last.rows[i].mark = MarkOf(lines[i][1])
                 /\ last.rows[i].line = lines[i][2]
           /\ last.lineNumber =
                 1 + Len(LinesOfKinds(last.hunks, {"added", "unchanged"}))

\* C28: the key of a relative path is resolved against the root directory
\* as it is when the request arrives.  setCurrentWorkingDirectory leaves
\* the store and the files alone, so an entry opened through a relative
\* path stays under the key of the old root; saveDocument and
\* getDocumentText of the path then address the key under the new root
\* (the save answers success:false without touching anything when the
\* store has no such key), and an entry leaves the store only by
\* closeAllDiffs or by a save whose path resolves to its key.
C28_KeyFollowsRoot ==
    [][ /\ last'.op = "setCurrentWorkingDirectory"
           => openDocuments' = openDocuments /\ disk' = disk
        /\ ( last'.op \in PathOps /\ ~last'.path.abs )
           => last'.key = Normalize(cwd \o last'.path.segs)
        /\ ( last'.op = "saveDocument" /\ ~MapHas(openDocuments, last'.key) )
           => /\ ~last'.success
              /\ openDocuments' = openDocuments
              /\ disk' = disk
        /\ last'.op = "getDocumentText"
           => last'.text =
                 IF MapHas(openDocuments, last'.key)
                 THEN MapGet(openDocuments, last'.key)
                 ELSE IF IsSome(disk[RealFile(last'.key)])
                      THEN Val(disk[RealFile(last'.key)]) ELSE <<>>
        /\ \A k \in DOMAIN openDocuments :
              k \notin DOMAIN openDocuments'
              => \/ last'.op = "closeAllDiffs"
                 \/ last'.op = "saveDocument" /\ last'.key = k ]_vars

\* An entry was opened through ./a under the root r; the root is now s and
\* a save of ./a found nothing under s/a: the entry is still under r/a.
C28_Witness ==
    /\ cwd = <<"s">>
    /\ last.op = "saveDocument"
    /\ last.path = RelPath(<<".", "a">>)
    /\ last.key = <<"s", "a">>
    /\ ~last.success
    /\ DOMAIN openDocuments = { <<"r", "a">> }

\* C29: truncateDocument with maxLines = n >= 0 on a path without entry
\* reads the path's file.  When the read succeeds the store gets an entry
\* for the path that holds the first n lines of the file's content (all of
\* them when the file has fewer) and the answer is success; when the file
\* is missing or the read fails the answer is success:false and the store
\* is as it was.
C29_TruncateFromDisk ==
    [][ ( /\ last'.op = "truncateDocument"
          /\ ~MapHas(openDocuments, last'.key)
          /\ IsSome(last'.maxLines) /\ Val(last'.maxLines) >= 0 )
        => IF IsSome(disk[RealFile(last'.key)]) /\ last'.failure = "none"
           THEN LET L == LinesOf(Val(disk[RealFile(last'.key)]))
                    k == Min(Val(last'.maxLines), Len(L))
                IN  /\ last'.success
                    /\ MapHas(openDocuments', last'.key)
                    /\ MapGet(openDocuments', last'.key) =
                          TextOf(SubSeq(L, 1, k))
           ELSE /\ ~last'.success
                /\ openDocuments' = openDocuments ]_vars

\* C30: a replaceText that gives exactly one of startLine and endLine makes
\* the entry the new text, or the empty text when no new text is given,
\* whatever the entry or the file held and whatever the given bound is.
C30_OneBoundReplacesAll ==
    ( /\ last.op = "replaceText"
      /\ IsSome(last.startLine) # IsSome(last.endLine) )
    => /\ last.success
       /\ MapHas(openDocuments, last.key)
       /\ MapGet(openDocuments, last.key) = GivenText(last)

\* Only endLine = 1 was given on an entry of several lines: the entry is
\* the new text alone.
C30_Witness ==
    /\ last.op = "replaceText"
    /\ ~IsSome(last.startLine) /\ last.endLine = Some(1)
    /\ IsSome(last.was) /\ Len(LinesOf(Val(last.was))) >= 2
    /\ IsSome(last.content) /\ Val(last.content) # <<>>
    /\ MapGet(openDocuments, last.key) = Val(last.content)

====
